---------------------------- MODULE Spec2Model ----------------------------
(***************************************************************************)
(* A model of the course / FCE lookup layer of cmu-courseapi-flask:        *)
(*   common/utils.py   parse_time, get_mini and the semester classifiers   *)
(*   common/search.py  Searcher, FCESearcher, CourseSearcher and the       *)
(*                     public lookup functions                             *)
(*                                                                         *)
(* Python strings are sequences of one-character strings, so that regular  *)
(* expressions, slicing and formatting are computed character by           *)
(* character.  Python values that the code inspects with isinstance are    *)
(* records tagged by their type in field t.                                *)
(***************************************************************************)
EXTENDS Integers, Sequences, FiniteSets, TLC

VARIABLES
    pc,        \* "idle": no call in progress; "searching": a search is in
               \* flight to the backend; "done": the call has ended
    op,        \* the function that was called
    arg,       \* its arguments
    today,     \* the date datetime.date.today() returns to the call
    now,       \* the instant arrow.now() returns to the call
    searches,  \* the backend searches the call has issued, in order
    backend,   \* what the backend did with the search
    response,  \* what Searcher.fetch handed back
    result     \* how the call ended: a returned value or a raised exception

vars == <<pc, op, arg, today, now, searches, backend, response, result>>

---------------------------------------------------------------------------
(* Characters and strings                                                  *)

Digits == {"0", "1", "2", "3", "4", "5", "6", "7", "8", "9"}

DigitVal(c) ==
    CASE c = "0" -> 0 [] c = "1" -> 1 [] c = "2" -> 2 [] c = "3" -> 3
      [] c = "4" -> 4 [] c = "5" -> 5 [] c = "6" -> 6 [] c = "7" -> 7
      [] c = "8" -> 8 [] c = "9" -> 9

DigitChar(n) ==
    CASE n = 0 -> "0" [] n = 1 -> "1" [] n = 2 -> "2" [] n = 3 -> "3"
      [] n = 4 -> "4" [] n = 5 -> "5" [] n = 6 -> "6" [] n = 7 -> "7"
      [] n = 8 -> "8" [] n = 9 -> "9"

\* str(n) for an integer n >= 0
RECURSIVE IntToStr(_)
IntToStr(n) ==
    IF n < 10 THEN <<DigitChar(n)>>
    ELSE Append(IntToStr(n \div 10), DigitChar(n % 10))

\* the value of a non-empty string of decimal digits
RECURSIVE DigitsToInt(_)
DigitsToInt(s) ==
    IF Len(s) = 0 THEN 0
    ELSE 10 * DigitsToInt(SubSeq(s, 1, Len(s) - 1)) + DigitVal(s[Len(s)])

AllDigits(s) == \A i \in 1..Len(s) : s[i] \in Digits

\* s[k:] of Python, k >= 0
SliceFrom(s, k) == SubSeq(s, k + 1, Len(s))

\* the character at position i, or "" past the end
At(s, i) == IF i \in 1..Len(s) THEN s[i] ELSE ""

\* a regular expression's $ without re.MULTILINE: the end of the string, or
\* just before a newline that ends the string
AtDollar(s, i) ==
    \/ i = Len(s) + 1
    \/ i = Len(s) /\ s[i] = "\n"

---------------------------------------------------------------------------
(* Python values                                                           *)

None == [t |-> "None"]
Str(s) == [t |-> "str", s |-> s]
Dict(d) == [t |-> "dict", d |-> d]
Time(h, m) == [t |-> "time", hour |-> h, minute |-> m]

\* how a call ends
Returns(v) == [exc |-> "none", val |-> v]
Raises(e) == [exc |-> e]
NoResult == [exc |-> "pending"]

---------------------------------------------------------------------------
(* common/utils.py                                                         *)

\* config: the prefix of every course index
ES_COURSE_INDEX_PREFIX == <<"c", "-">>

\* the am/pm directive of strptime, matched ignoring case
AmPmAt(s, i) ==
    IF At(s, i) \in {"a", "A"} /\ At(s, i + 1) \in {"m", "M"} THEN "am"
    ELSE IF At(s, i) \in {"p", "P"} /\ At(s, i + 1) \in {"m", "M"} THEN "pm"
    ELSE "no"

\* %I, 1[0-2]|0[1-9]|[1-9]: the lengths that match at i, in the order the
\* alternatives are tried
Lens_I(s, i) ==
    (IF At(s, i) = "1" /\ At(s, i + 1) \in {"0", "1", "2"} THEN <<2>> ELSE <<>>)
    \o (IF At(s, i) = "0" /\ At(s, i + 1) \in Digits \ {"0"} THEN <<2>> ELSE <<>>)
    \o (IF At(s, i) \in Digits \ {"0"} THEN <<1>> ELSE <<>>)

\* %H, 2[0-3]|[0-1]\d|\d
Lens_H(s, i) ==
    (IF At(s, i) = "2" /\ At(s, i + 1) \in {"0", "1", "2", "3"} THEN <<2>> ELSE <<>>)
    \o (IF At(s, i) \in {"0", "1"} /\ At(s, i + 1) \in Digits THEN <<2>> ELSE <<>>)
    \o (IF At(s, i) \in Digits THEN <<1>> ELSE <<>>)

\* %M, [0-5]\d|\d
Lens_M(s, i) ==
    (IF At(s, i) \in {"0", "1", "2", "3", "4", "5"} /\ At(s, i + 1) \in Digits
     THEN <<2>> ELSE <<>>)
    \o (IF At(s, i) \in Digits THEN <<1>> ELSE <<>>)

\* The first match of hour ":" minute [am/pm] from the start of s, as the
\* backtracking matcher finds it: <<hour length, minute length>>, or <<>>.
FirstMatch(s, hourLens, withAmPm) ==
    LET ok(p) ==
            /\ At(s, 1 + p[1]) = ":"
            /\ (withAmPm => AmPmAt(s, 2 + p[1] + p[2]) # "no")
        cands == [k \in 1..Len(hourLens) |->
                    LET nh == hourLens[k]
                        ms == Lens_M(s, 2 + nh)
                        good == {j \in 1..Len(ms) : ok(<<nh, ms[j]>>)}
                    IN  IF At(s, 1 + nh) = ":" /\ good # {}
                        THEN <<nh, ms[CHOOSE j \in good : \A j2 \in good : j <= j2]>>
                        ELSE <<>>]
        hit == {k \in 1..Len(hourLens) : cands[k] # <<>>}
    IN  IF hit = {} THEN <<>>
        ELSE cands[CHOOSE k \in hit : \A k2 \in hit : k <= k2]

\* datetime.datetime.strptime(s, "%I:%M%p").time(); "ValueError" when the
\* format does not match or unconverted data remains
strptime_I_M_p(s) ==
    LET m == FirstMatch(s, Lens_I(s, 1), TRUE)
    IN  IF m = <<>> \/ 3 + m[1] + m[2] # Len(s) THEN Raises("ValueError")
        ELSE LET h == DigitsToInt(SubSeq(s, 1, m[1]))
                 mi == DigitsToInt(SubSeq(s, 2 + m[1], 1 + m[1] + m[2]))
                 pm == AmPmAt(s, 2 + m[1] + m[2]) = "pm"
             IN  Returns(Time((h % 12) + (IF pm THEN 12 ELSE 0), mi))

\* datetime.datetime.strptime(s, "%H:%M").time()
strptime_H_M(s) ==
    LET m == FirstMatch(s, Lens_H(s, 1), FALSE)
    IN  IF m = <<>> \/ 1 + m[1] + m[2] # Len(s) THEN Raises("ValueError")
        ELSE Returns(Time(DigitsToInt(SubSeq(s, 1, m[1])),
                          DigitsToInt(SubSeq(s, 2 + m[1], 1 + m[1] + m[2]))))

\* strptime of something that is not a string
strptime_any(v, fmt12) ==
    IF v.t # "str" THEN Raises("TypeError")
    ELSE IF fmt12 THEN strptime_I_M_p(v.s) ELSE strptime_H_M(v.s)

parse_time_12only(time_string) ==
    LET first == strptime_any(time_string, TRUE)
    IN  IF first.exc = "none" THEN first ELSE Returns(None)

parse_time(time_string) ==
    LET first == strptime_any(time_string, TRUE)
        second == strptime_any(time_string, FALSE)
    IN  IF first.exc = "none" THEN first
        ELSE IF second.exc = "none" THEN second
        ELSE Returns(None)

\* datetime.date(year, month, day)
Date(y, m, d) == [year |-> y, month |-> m, day |-> d]

\* a <= datetime.date(a.year, m, d)
NotAfter(a, m, d) == a.month < m \/ (a.month = m /\ a.day <= d)

get_mini(current_date) ==
    IF ~NotAfter(current_date, 8, 20) /\ NotAfter(current_date, 10, 15) THEN 1
    ELSE IF ~NotAfter(current_date, 10, 15) /\ NotAfter(current_date, 12, 31) THEN 2
    ELSE IF (~NotAfter(current_date, 1, 1) \/ (current_date.month = 1 /\ current_date.day = 1))
            /\ NotAfter(current_date, 3, 15) THEN 3
    ELSE IF ~NotAfter(current_date, 3, 15) /\ NotAfter(current_date, 5, 15) THEN 4
    ELSE IF ~NotAfter(current_date, 5, 15) /\ NotAfter(current_date, 7, 1) THEN 5
    ELSE IF ~NotAfter(current_date, 7, 1) /\ NotAfter(current_date, 8, 20) THEN 6
    ELSE 0

get_semester_short_from_date(date) ==
    LET mini == get_mini(date)
        semester == IF 1 <= mini /\ mini <= 2 THEN <<"f">>
                    ELSE IF 3 <= mini /\ mini <= 4 THEN <<"s">>
                    ELSE IF mini = 5 THEN <<"m", "1">>
                    ELSE <<"m", "2">>
    IN  semester \o SliceFrom(IntToStr(date.year), 2)

get_semester_from_date(date) ==
    LET mini == get_mini(date)
        semester == IF 1 <= mini /\ mini <= 2 THEN <<"F", "a", "l", "l">>
                    ELSE IF 3 <= mini /\ mini <= 4
                         THEN <<"S", "p", "r", "i", "n", "g">>
                    ELSE IF mini = 5
                         THEN <<"S", "u", "m", "m", "e", "r", " ", "O", "n", "e">>
                    ELSE <<"S", "u", "m", "m", "e", "r", " ", "T", "w", "o">>
    IN  semester \o <<" ">> \o IntToStr(date.year)

get_course_index_from_date(date) ==
    ES_COURSE_INDEX_PREFIX \o get_semester_short_from_date(date)

get_current_course_index == get_course_index_from_date(today)

---------------------------------------------------------------------------
(* Queries of elasticsearch_dsl, as common/search.py builds them           *)

MatchAll == [q |-> "match_all"]
Match(path, name, value) ==
    [q |-> "match", path |-> path, name |-> name, value |-> value,
     operator |-> "or", fuzziness |-> "none"]
MatchObj(path, name, obj) ==
    [q |-> "match", path |-> path, name |-> name, value |-> obj.query,
     operator |-> obj.operator, fuzziness |-> obj.fuzziness]
Term(path, name, value) ==
    [q |-> "term", path |-> path, name |-> name, value |-> value]
Range(path, name, cmp, value, format) ==
    [q |-> "range", path |-> path, name |-> name, cmp |-> cmp,
     value |-> value, format |-> format]
\* msm: minimum_should_match, -1 when it is not set
Bool(must, should, msm) ==
    [q |-> "bool", must |-> must, should |-> should, msm |-> msm]
Nested(path, query) == [q |-> "nested", path |-> path, query |-> query]

\* Bool._min_should_match
MinShouldMatch(b) ==
    IF b.msm # -1 THEN b.msm
    ELSE IF b.should = <<>> \/ b.must # <<>> THEN 0 ELSE 1

\* one step of the loop of Bool.__and__ over (self, other)
BoolAndStep(acc, qx) ==
    LET m == MinShouldMatch(qx)
    IN  IF Len(qx.should) <= m
            THEN [acc EXCEPT !.must = acc.must \o qx.should]
        ELSE IF acc.should = <<>>
            THEN [acc EXCEPT !.msm = m, !.should = qx.should]
        ELSE IF MinShouldMatch(acc) = 0 /\ m = 0
            THEN [acc EXCEPT !.should = acc.should \o qx.should]
        ELSE [acc EXCEPT !.must = Append(acc.must, Bool(<<>>, qx.should, m))]

\* Bool.__and__(self, other)
BoolAnd(self, other) ==
    IF other.q = "bool"
    THEN BoolAndStep(
             BoolAndStep([self EXCEPT !.must = self.must \o other.must,
                                      !.should = <<>>], self),
             other)
    ELSE LET q == IF self.must = <<>> /\ self.should # <<>> /\ self.msm = -1
                  THEN [self EXCEPT !.msm = 1] ELSE self
         IN  [q EXCEPT !.must = Append(q.must, other)]

\* a & b
QAnd(a, b) ==
    IF a.q = "match_all" THEN b
    ELSE IF a.q = "bool" THEN BoolAnd(a, b)
    ELSE IF b.q = "match_all" THEN a
    ELSE IF b.q = "bool" THEN BoolAnd(b, a)
    ELSE Bool(<<a, b>>, <<>>, -1)

\* a | b, for two queries that are neither Bool nor MatchAll
QOr(a, b) == Bool(<<>>, <<a, b>>, -1)

\* &= over a list of queries, starting from Q()
RECURSIVE QAndAll(_, _)
QAndAll(acc, qs) ==
    IF qs = <<>> THEN acc ELSE QAndAll(QAnd(acc, Head(qs)), Tail(qs))

---------------------------------------------------------------------------
(* common/search.py: the searchers                                         *)

Has(d, k) == k \in DOMAIN d

Chars_current == <<"c", "u", "r", "r", "e", "n", "t">>
Chars_now == <<"n", "o", "w">>

\* config: the index of the FCE documents
ES_FCE_INDEX == <<"f", "c", "e">>

\* re.match('^(f|s|m1|m2)\d{2}$', value)
MatchesTermName(s) ==
    \E n \in {1, 2} :
        /\ \/ n = 1 /\ At(s, 1) \in {"f", "s"}
           \/ n = 2 /\ At(s, 1) = "m" /\ At(s, 2) \in {"1", "2"}
        /\ At(s, n + 1) \in Digits
        /\ At(s, n + 2) \in Digits
        /\ AtDollar(s, n + 3)

\* re.search("^\d\d-\d\d\d$", courseid)
MatchesCourseId(s) ==
    /\ At(s, 1) \in Digits /\ At(s, 2) \in Digits
    /\ At(s, 3) = "-"
    /\ At(s, 4) \in Digits /\ At(s, 5) \in Digits /\ At(s, 6) \in Digits
    /\ AtDollar(s, 7)

\* the setter of CourseSearcher.index
CourseSearcher_index(value) ==
    IF value = None THEN Str(ES_COURSE_INDEX_PREFIX \o <<"*">>)
    ELSE IF value.s = Chars_current THEN Str(get_current_course_index)
    ELSE IF MatchesTermName(value.s) THEN Str(ES_COURSE_INDEX_PREFIX \o value.s)
    ELSE value

\* str.upper(), on the letters the inputs use
UpperChar(c) ==
    CASE c = "a" -> "A" [] c = "b" -> "B" [] c = "c" -> "C" [] c = "d" -> "D"
      [] c = "e" -> "E" [] c = "g" -> "G" [] c = "h" -> "H" [] c = "p" -> "P"
      [] c = "w" -> "W"
      [] OTHER -> c
Upper(s) == [i \in 1..Len(s) |-> UpperChar(s[i])]

\* " ".join(list)
RECURSIVE Join(_)
Join(list) ==
    IF Len(list) = 0 THEN <<>>
    ELSE IF Len(list) = 1 THEN list[1]
    ELSE list[1] \o <<" ">> \o Join(Tail(list))

MinutesPerDay == 24 * 60

TwoDigits(n) == <<DigitChar(n \div 10), DigitChar(n % 10)>>

\* time.strftime("%I:%M%p") of the time that is minute m of the day
strftime_I_M_p(m) ==
    LET h == m \div 60
        h12 == IF h % 12 = 0 THEN 12 ELSE h % 12
    IN  TwoDigits(h12) \o <<":">> \o TwoDigits(m % 60)
        \o (IF h < 12 THEN <<"A", "M">> ELSE <<"P", "M">>)

\* (date_time + datetime.timedelta(minutes=k)).time(), as the minute of the day
ShiftedTime(date_time, k) == (date_time.minute + k) % MinutesPerDay

TimesPath(top) == IF top = "lectures" THEN "lectures.times" ELSE "sections.times"

\* the three clauses on one meeting time of a lecture or a section
TimeQuery(raw_query, times) ==
    LET date_time == raw_query["datetime"][1]
        day == date_time.isoweekday % 7
        time == strftime_I_M_p(date_time.minute)
        shifted_time == strftime_I_M_p(ShiftedTime(date_time, raw_query["timespan"][1]))
    IN  Bool(<<Match(times, "days", day),
               Range(times, "begin", "lte", shifted_time, "hh:mma"),
               Range(times, "end", "gt", time, "hh:mma")>>, <<>>, -1)

\* lec_nested_queries / sec_nested_queries, in the order of insertion
NestedQueries(raw_query, top) ==
    LET times == TimesPath(top)
    IN  (IF Has(raw_query, "building")
         THEN <<Match(times, "building", Upper(raw_query["building"][1]))>>
         ELSE <<>>)
        \o (IF Has(raw_query, "room")
            THEN <<Match(times, "room", Upper(raw_query["room"][1]))>>
            ELSE <<>>)
        \o (IF Has(raw_query, "datetime")
            THEN <<TimeQuery(raw_query, times)>> ELSE <<>>)

\* lec_name_query / sec_name_query
NameQuery(raw_query, top) ==
    IF Has(raw_query, "instructor")
    THEN MatchObj(top, "instructors",
                  [query |-> Join(raw_query["instructor"]),
                   operator |-> "and",
                   fuzziness |-> IF Has(raw_query, "instructor_fuzzy")
                                 THEN "AUTO" ELSE "none"])
    ELSE MatchAll

\* a variant that matches the instructor outside the nested clause
CombinedQuery_flat(raw_query, top) ==
    QAnd(Nested(top, Nested(TimesPath(top),
                            QAndAll(MatchAll, NestedQueries(raw_query, top)))),
         NameQuery(raw_query, top))

\* combined_lec_query / combined_sec_query
CombinedQuery(raw_query, top) ==
    Nested(top,
           QAnd(Nested(TimesPath(top),
                       QAndAll(MatchAll, NestedQueries(raw_query, top))),
                NameQuery(raw_query, top)))

CourseSearcher_generate_query(raw_query, index) ==
    LET q0 == MatchAll
        q1 == IF Has(raw_query, "text")
              THEN QAnd(q0, Bool(<<>>, <<Match("", "name", raw_query["text"][1]),
                                         Match("", "desc", raw_query["text"][1])>>, -1))
              ELSE LET qn == IF Has(raw_query, "name")
                             THEN QAnd(q0, Bool(<<Match("", "name", raw_query["name"][1])>>,
                                                <<>>, -1))
                             ELSE q0
                   IN  IF Has(raw_query, "desc")
                       THEN QAnd(qn, Bool(<<Match("", "desc", raw_query["desc"][1])>>,
                                          <<>>, -1))
                       ELSE qn
        q2 == IF Has(raw_query, "courseid")
              THEN QAnd(q1,
                        IF index = None
                        THEN Bool(<<Term("", "id", raw_query["courseid"][1])>>,
                                  <<Match("", "semester", get_semester_from_date(today))>>,
                                  -1)
                        ELSE Term("", "id", raw_query["courseid"][1]))
              ELSE q1
    IN  QAnd(q2, Bool(<<QOr(CombinedQuery(raw_query, "lectures"),
                            CombinedQuery(raw_query, "sections"))>>, <<>>, -1))

FCESearcher_generate_query(raw_query) ==
    LET q1 == IF Has(raw_query, "courseid")
              THEN QAnd(MatchAll, Term("", "courseid", raw_query["courseid"][1]))
              ELSE MatchAll
    IN  IF Has(raw_query, "instructor")
        THEN QAnd(q1, MatchObj("", "instructor",
                               [query |-> raw_query["instructor"][1],
                                operator |-> "and", fuzziness |-> "none"]))
        ELSE q1

\* what Searcher.execute hands to Search(...): the request sent to the backend
CourseSearch(raw_query, index, size) ==
    LET idx == CourseSearcher_index(index)
    IN  [index |-> idx, doc_type |-> "course", size |-> size, sort |-> <<>>,
         raw_query |-> raw_query,
         query |-> CourseSearcher_generate_query(raw_query, idx)]

FCESearch(raw_query, index, size, sort) ==
    [index |-> index, doc_type |-> "fce", size |-> size, sort |-> sort,
     raw_query |-> raw_query,
     query |-> FCESearcher_generate_query(raw_query)]

---------------------------------------------------------------------------
(* The backend and its responses                                           *)

\* elasticsearch.exceptions: the classes below TransportError
IsTransportError(cls) ==
    cls \in {"TransportError", "NotFoundError", "RequestError", "ConnectionError"}

\* a Response of elasticsearch_dsl holding the hits in the backend's order
Response(hits) == [t |-> "Response", hits |-> hits]
Hit(id) == [t |-> "Hit", source |-> [id |-> id]]
Hit_to_dict(hit) == Dict(hit.source)
Response_to_dict(r) ==
    Dict([hits |-> [total |-> Len(r.hits),
                    hits |-> [i \in 1..Len(r.hits) |-> r.hits[i].source]]])

\* Searcher.fetch: the three except clauses hand back e.info
fetch(outcome) ==
    IF outcome.kind = "ok" THEN Returns(outcome.response)
    ELSE IF IsTransportError(outcome.exc) THEN Returns(outcome.info)
    ELSE Raises(outcome.exc)

has_error(r) == r.t = "dict" /\ Has(r.d, "status")

response_to_dict(r) ==
    IF r.t = "dict" THEN Returns(r)
    ELSE IF r.t = "Response" THEN Returns(Response_to_dict(r))
    ELSE Raises("AttributeError")

\* "for hit in response: list.append(hit.to_dict())"
HitsToDicts(r) ==
    IF r.t = "Response"
        THEN Returns([i \in 1..Len(r.hits) |-> Hit_to_dict(r.hits[i])])
    ELSE IF r.t = "dict" /\ DOMAIN r.d = {}
        THEN Returns(<<>>)
    ELSE Raises("AttributeError")

init_courses_output == [response |-> Dict(<<>>), courses |-> <<>>]
init_fces_output == [response |-> Dict(<<>>), fces |-> <<>>]

format_courses_output(r) ==
    LET d == response_to_dict(r)
        l == HitsToDicts(r)
    IN  IF d.exc # "none" THEN d
        ELSE IF has_error(r)
            THEN Returns([init_courses_output EXCEPT !.response = d.val])
        ELSE IF l.exc # "none" THEN l
        ELSE Returns([response |-> d.val, courses |-> l.val])

format_fces_output(r) ==
    LET d == response_to_dict(r)
        l == HitsToDicts(r)
    IN  IF d.exc # "none" THEN d
        ELSE IF has_error(r)
            THEN Returns([init_fces_output EXCEPT !.response = d.val])
        ELSE IF l.exc # "none" THEN l
        ELSE Returns([response |-> d.val, fces |-> l.val])

\* d[key] = value on a dict
SetItem(dict, key, value) ==
    Dict([k \in DOMAIN dict.d \cup {key} |-> IF k = key THEN value ELSE dict.d[k]])

---------------------------------------------------------------------------
(* What the backend computes for a query.  A document is a tree of         *)
(* objects: a course holds lectures and sections, each of them holds       *)
(* meeting times.  Every object carries its nested path and, per field,    *)
(* the set of its values.                                                  *)

\* a query's time in the format 'hh:mma', as the minute of the day
ParseHHMMA(s) ==
    LET hh == DigitsToInt(SubSeq(s, 1, 2))
        mm == DigitsToInt(SubSeq(s, 4, 5))
    IN  (hh % 12) * 60 + mm + (IF At(s, 6) = "P" THEN 12 * 60 ELSE 0)

\* the objects a nested query on `path` visits from object o
NestedObjects(o, path) ==
    IF o.path = "" /\ path \in {"lectures", "sections"} THEN o[path]
    ELSE IF o.path = "" /\ path = "lectures.times"
        THEN UNION {l.times : l \in o.lectures}
    ELSE IF o.path = "" /\ path = "sections.times"
        THEN UNION {l.times : l \in o.sections}
    ELSE IF path = TimesPath(o.path) THEN o.times
    ELSE {}

RECURSIVE Eval(_, _)
Eval(q, o) ==
    CASE q.q = "match_all" -> TRUE
      [] q.q \in {"match", "term"} ->
            q.path = o.path /\ Has(o, q.name) /\ q.value \in o[q.name]
      [] q.q = "range" ->
            /\ q.path = o.path /\ Has(o, q.name)
            /\ \E v \in o[q.name] :
                  IF q.cmp = "lte" THEN v <= ParseHHMMA(q.value)
                  ELSE v > ParseHHMMA(q.value)
      [] q.q = "bool" ->
            /\ \A i \in 1..Len(q.must) : Eval(q.must[i], o)
            /\ Cardinality({i \in 1..Len(q.should) : Eval(q.should[i], o)})
                   >= MinShouldMatch(q)
      [] q.q = "nested" ->
            \E c \in NestedObjects(o, q.path) : Eval(q.query, c)

---------------------------------------------------------------------------
(* common/search.py: the lookup functions                                  *)

\* config.course: the limits of a time span, in minutes
SPAN_LOWER_LIMIT == 0
SPAN_UPPER_LIMIT == 120

\* common.Message
SPAN_PARSE_FAIL == "SPAN_PARSE_FAIL"
DATETIME_PARSE_FAIL == "DATETIME_PARSE_FAIL"
EMPTY_SEARCH == "EMPTY_SEARCH"

ErrorOutput(message) ==
    [init_courses_output EXCEPT
        !.response = Dict([status |-> 400, error |-> [message |-> message]])]

RECURSIVE LStrip(_)
LStrip(s) == IF Len(s) > 0 /\ Head(s) = " " THEN LStrip(Tail(s)) ELSE s
RECURSIVE RStrip(_)
RStrip(s) ==
    IF Len(s) > 0 /\ s[Len(s)] = " " THEN RStrip(SubSeq(s, 1, Len(s) - 1)) ELSE s

\* int(s) of a string: blanks around, an optional sign, decimal digits
int(s) ==
    LET b == RStrip(LStrip(s))
        signed == Len(b) > 0 /\ Head(b) \in {"+", "-"}
        ds == IF signed THEN Tail(b) ELSE b
    IN  IF Len(ds) = 0 \/ ~AllDigits(ds) THEN Raises("ValueError")
        ELSE Returns(IF signed /\ Head(b) = "-" THEN 0 - DigitsToInt(ds)
                     ELSE DigitsToInt(ds))

\* a string arrow.get parses stands for the instant it denotes: the date it
\* names, and the day of the week (ISO, Monday = 1) and the minute of the day
\* it falls on in America/New_York
Instant(date, isoweekday, minute) ==
    [date |-> date, isoweekday |-> isoweekday, minute |-> minute]
DateTimeStr(instant) == [t |-> "str", s |-> <<"T">>, denotes |-> instant]

arrow_get(v) ==
    IF Has(v, "denotes") THEN Returns(v.denotes) ELSE Raises("ParserError")

\* the span without the check against the limits
SpanMinutes_nolimit(span_str) ==
    IF span_str = None THEN Returns(0)
    ELSE LET n == int(span_str.s)
         IN  IF n.exc # "none" THEN Raises(SPAN_PARSE_FAIL) ELSE n

\* lines 456-471 of get_courses_by_datetime: the span, or SPAN_PARSE_FAIL
SpanMinutes(span_str) ==
    IF span_str = None THEN Returns(0)
    ELSE LET n == int(span_str.s)
         IN  IF n.exc # "none" THEN Raises(SPAN_PARSE_FAIL)
             ELSE IF ~(SPAN_LOWER_LIMIT <= n.val /\ n.val <= SPAN_UPPER_LIMIT)
                 THEN Raises(SPAN_PARSE_FAIL)
             ELSE n

\* get_courses_by_id after the search: lines 414-418
get_courses_by_id_output(r) ==
    LET output == format_courses_output(r)
    IN  IF output.exc # "none" THEN output
        ELSE IF Len(output.val.courses) = 0
            THEN Returns([output.val EXCEPT !.response = SetItem(@, "status", 404)])
        ELSE output

\* what a lookup function does with the response of its search
Output(name, r) ==
    IF name = "get_courses_by_id" THEN get_courses_by_id_output(r)
    ELSE IF name \in {"get_fce_by_id", "get_fce_by_instructor"}
        THEN format_fces_output(r)
    ELSE IF name = "CourseSearcher.execute" THEN Returns(r)
    ELSE format_courses_output(r)

\* raw_query of get_courses_by_searching: lines 515-531
SearchingRawQuery(args) ==
    LET keys == (IF Has(args, "text") THEN {"text"}
                 ELSE {"name", "desc"} \cap DOMAIN args)
                \cup ({"instructor", "courseid", "building", "room"} \cap DOMAIN args)
    IN  [k \in keys |-> <<args[k]>>]

\* an index taken from the term's value
SearchingIndex_term(args) == IF Has(args, "term") THEN Str(args["term"]) ELSE None

\* index of get_courses_by_searching: lines 570-573
SearchingIndex(args) == IF Has(args, "term") THEN Str(Chars_current) ELSE None

---------------------------------------------------------------------------
(* Inputs                                                                  *)

\* days of the month tried: the classifier's boundaries and their neighbours
DaysTried == {1, 2, 14, 15, 16, 19, 20, 21, 28, 30, 31}

DaysIn(m) == IF m = 2 THEN 28
             ELSE IF m \in {4, 6, 9, 11} THEN 30 ELSE 31

\* years tried: one to four digits, datetime.MINYEAR to datetime.MAXYEAR
YearsTried == {1, 87, 999, 1000, 2017, 2100, 9999}

DatesTried ==
    {Date(y, m, d) : y \in YearsTried, m \in 1..12, d \in DaysTried}
    \ {dt \in [year : YearsTried, month : 1..12, day : DaysTried] :
           dt.day > DaysIn(dt.month)}

\* the dates the clock may show
TodayTried == {Date(2017, 7, 2), Date(2026, 11, 4)}

HourParts == {<<>>, <<"0">>, <<"8">>, <<"0", "0">>, <<"0", "8">>,
              <<"1", "2">>, <<"1", "3">>, <<"2", "0">>, <<"2", "3">>,
              <<"2", "4">>, <<"0", "0", "8">>}
MinuteParts == {<<>>, <<"5">>, <<"0", "0">>, <<"1", "5">>,
                <<"5", "9">>, <<"6", "0">>, <<"0", "1", "5">>}
Separators == {<<":">>, <<>>}
Suffixes == {<<>>, <<"a", "m">>, <<"A", "M">>, <<"p", "m">>, <<"P", "m">>,
             <<"a">>, <<" ", "a", "m">>, <<"\n">>}

TimeStrings ==
    {h \o sep \o m \o suf :
        h \in HourParts, sep \in Separators, m \in MinuteParts, suf \in Suffixes}

\* the most hits a response holds
MaxHits == 2
HitIds == {"h1", "h2"}

HitLists ==
    UNION {{[i \in 1..n |-> Hit(f[i])] : f \in [1..n -> HitIds]} : n \in 0..MaxHits}

ErrorInfos ==
    [NotFoundError |-> {Dict([error |-> "index_not_found_exception", status |-> 404])},
     RequestError |-> {Dict([error |-> "parsing_exception", status |-> 400])},
     TransportError |-> {Dict([error |-> "internal_server_error", status |-> 500]),
                         Dict([message |-> "Forbidden"]),
                         None},
     ConnectionError |-> {[t |-> "exception", cls |-> "ConnectionRefusedError"]},
     SerializationError |-> {None}]

BackendOutcomes ==
    {[kind |-> "ok", response |-> Response(h)] : h \in HitLists}
    \cup UNION {{[kind |-> "raise", exc |-> e, info |-> i] : i \in ErrorInfos[e]} :
                    e \in DOMAIN ErrorInfos}

Chars(str) ==
    CASE str = "15-112" -> <<"1", "5", "-", "1", "1", "2">>
      [] str = "15-112\n" -> <<"1", "5", "-", "1", "1", "2", "\n">>
      [] str = "15112" -> <<"1", "5", "1", "1", "2">>
      [] str = "5-112" -> <<"5", "-", "1", "1", "2">>
      [] str = "15-1123" -> <<"1", "5", "-", "1", "1", "2", "3">>
      [] str = "a5-112" -> <<"a", "5", "-", "1", "1", "2">>
      [] str = " 15-112" -> <<" ", "1", "5", "-", "1", "1", "2">>
      [] str = "f17" -> <<"f", "1", "7">>
      [] str = "s18" -> <<"s", "1", "8">>
      [] str = "m217" -> <<"m", "2", "1", "7">>
      [] str = "m317" -> <<"m", "3", "1", "7">>
      [] str = "f17\n" -> <<"f", "1", "7", "\n">>
      [] str = "f1" -> <<"f", "1">>
      [] str = "f2017" -> <<"f", "2", "0", "1", "7">>
      [] str = "F17" -> <<"F", "1", "7">>
      [] str = "c-f17" -> ES_COURSE_INDEX_PREFIX \o <<"f", "1", "7">>
      [] str = "*" -> <<"*">>
      [] str = "kosbie" -> <<"k", "o", "s", "b", "i", "e">>
      [] str = "dh" -> <<"d", "h">>
      [] str = "GHC" -> <<"G", "H", "C">>
      [] str = "a51" -> <<"a", "5", "1">>
      [] str = "algo" -> <<"a", "l", "g", "o">>
      [] str = "15" -> <<"1", "5">>
      [] str = " 15 " -> <<" ", "1", "5", " ">>
      [] str = "+15" -> <<"+", "1", "5">>
      [] str = "-5" -> <<"-", "5">>
      [] str = "0" -> <<"0">>
      [] str = "120" -> <<"1", "2", "0">>
      [] str = "121" -> <<"1", "2", "1">>
      [] str = "1.5" -> <<"1", ".", "5">>
      [] str = "1 5" -> <<"1", " ", "5">>
      [] str = "x" -> <<"x">>
      [] str = "" -> <<>>

CourseIdsTried ==
    {Chars(x) : x \in {"15-112", "15-112\n", "15112", "5-112", "15-1123",
                       "a5-112", " 15-112", ""}}

IndexesTried ==
    {None, Str(Chars_current)}
    \cup {Str(Chars(x)) : x \in {"f17", "s18", "m217", "m317", "f17\n", "f1",
                                 "f2017", "F17", "c-f17", "*"}}

SpanStrsTried ==
    {None} \cup {Str(Chars(x)) : x \in {"0", "15", " 15 ", "+15", "120", "121",
                                        "-5", "1.5", "1 5", "x", ""}}

InstantsTried ==
    {Instant(d, w, m) :
        d \in {Date(2017, 3, 15), Date(2017, 7, 2), Date(999, 12, 31)},
        w \in {1, 6, 7},
        m \in {0, 9 * 60, 11 * 60 + 59, 12 * 60, 12 * 60 + 30, 23 * 60 + 50}}

NowTried == {Instant(Date(2026, 11, 4), 3, 13 * 60 + 51),
             Instant(Date(2017, 7, 2), 7, 23 * 60 + 59)}

DateTimeStrsTried ==
    {Str(Chars_now), Str(Chars("x")), Str(Chars("15"))}
    \cup {DateTimeStr(i) : i \in InstantsTried}

\* the keys of the request's arguments, each with the values tried for it
ArgValuesTried ==
    [text |-> {Chars("algo")}, name |-> {Chars("algo")}, desc |-> {Chars("algo")},
     instructor |-> {Chars("kosbie")}, courseid |-> {Chars("15-112")},
     building |-> {Chars("dh")}, room |-> {Chars("a51")},
     term |-> {Chars("f17"), Chars("x")}]

ArgsTried ==
    {[k \in keys |-> IF k = "term" THEN term
                     ELSE CHOOSE v \in ArgValuesTried[k] : TRUE] :
        keys \in SUBSET DOMAIN ArgValuesTried, term \in ArgValuesTried["term"]}

\* raw queries handed to a CourseSearcher directly
InstructorQueriesTried ==
    {<<>>, [instructor |-> <<Chars("kosbie")>>],
     [instructor |-> <<Chars("kosbie")>>, instructor_fuzzy |-> <<Chars("kosbie")>>]}
PlaceQueriesTried ==
    {<<>>, [building |-> <<Chars("dh")>>], [room |-> <<Chars("a51")>>],
     [building |-> <<Chars("dh")>>, room |-> <<Chars("a51")>>]}
TimeQueriesTried ==
    {<<>>} \cup
    {[datetime |-> <<Instant(Date(2017, 3, 15), w, m)>>, timespan |-> <<k>>] :
        w \in {1, 7}, m \in {9 * 60, 12 * 60 + 30}, k \in {0, 15}}

Merge(f, g) == [k \in DOMAIN f \cup DOMAIN g |-> IF k \in DOMAIN f THEN f[k] ELSE g[k]]

RawQueriesTried ==
    {Merge(Merge(i, p), t) :
        i \in InstructorQueriesTried, p \in PlaceQueriesTried, t \in TimeQueriesTried}

\* the most meeting times a lecture or a section of a document holds
MaxTimes == 2

SlotsTried == {[days |-> {1, 3}, begin |-> 9 * 60, end |-> 10 * 60 + 20],
               [days |-> {0}, begin |-> 12 * 60, end |-> 13 * 60 + 20]}

\* every place in the first slot, and two places in the second
MeetingTimes(top) ==
    {[path |-> TimesPath(top), building |-> {pl[1]}, room |-> {pl[2]},
      days |-> sl.days, begin |-> {sl.begin}, end |-> {sl.end}] :
        pl \in {<<Upper(Chars("dh")), Upper(Chars("a51"))>>, <<Chars("GHC"), Chars("15")>>},
        sl \in SlotsTried}
    \cup
    {[path |-> TimesPath(top), building |-> {pl[1]}, room |-> {pl[2]},
      days |-> {1, 3}, begin |-> {9 * 60}, end |-> {10 * 60 + 20}] :
        pl \in {<<Upper(Chars("dh")), Chars("15")>>, <<Chars("GHC"), Upper(Chars("a51"))>>}}

\* the lectures (top = "lectures") or sections of the documents tried
Owners(top) ==
    {[path |-> top, instructors |-> {n}, times |-> ts] :
        n \in {Chars("kosbie"), Chars("x")},
        ts \in {x \in SUBSET MeetingTimes(top) : Cardinality(x) <= MaxTimes}}

\* the course documents tried: at most one lecture and at most one section
DocumentsTried ==
    {[path |-> "", lectures |-> ls, sections |-> ss] :
        ls \in {{}} \cup {{l} : l \in Owners("lectures")},
        ss \in {{}} \cup {{x} : x \in Owners("sections")}}

---------------------------------------------------------------------------
(* The calls                                                               *)

NoArg == [none |-> TRUE]
NoBackend == [kind |-> "none"]

Idle ==
    /\ pc = "idle" /\ op = "none" /\ arg = NoArg
    /\ searches = <<>> /\ backend = NoBackend
    /\ response = None /\ result = NoResult

\* the clock before any call has read it
Today0 == Date(2026, 11, 4)
Now0 == Instant(Date(2026, 11, 4), 3, 13 * 60 + 51)

Init == Idle /\ today = Today0 /\ now = Now0

\* a call that ends without a backend search
Pure(name, a, res) ==
    /\ pc' = "done" /\ op' = name /\ arg' = a /\ result' = res
    /\ UNCHANGED <<today, now, searches, backend, response>>

\* a call that sends a search of the course index and waits for the backend;
\* the searcher reads the clock where its index is 'current'
CourseCall(name, a, raw_query, index, size) ==
    /\ pc' = "searching" /\ op' = name /\ arg' = a
    /\ today' \in (IF index = Str(Chars_current) THEN TodayTried ELSE {today})
    /\ searches' = <<CourseSearch(raw_query, index, size)'>>
    /\ UNCHANGED <<now, backend, response, result>>

FCECall(name, a, raw_query) ==
    /\ pc' = "searching" /\ op' = name /\ arg' = a
    /\ searches' = <<FCESearch(raw_query, Str(ES_FCE_INDEX), 100, <<"-year">>)>>
    /\ UNCHANGED <<today, now, backend, response, result>>

call_parse_time ==
    /\ pc = "idle"
    /\ \E v \in {Str(s) : s \in TimeStrings} \cup {None} :
           Pure("parse_time", [time_string |-> v], parse_time(v))

call_get_semester_from_date ==
    /\ pc = "idle"
    /\ \E d \in DatesTried :
           Pure("get_semester_from_date", [date |-> d],
                Returns([short |-> get_semester_short_from_date(d),
                         long |-> get_semester_from_date(d),
                         index |-> get_course_index_from_date(d)]))

call_get_courses_by_id ==
    /\ pc = "idle"
    /\ \E courseid \in CourseIdsTried :
           IF MatchesCourseId(courseid)
           THEN CourseCall("get_courses_by_id", [courseid |-> courseid],
                           [courseid |-> <<courseid>>], None, 5)
           ELSE Pure("get_courses_by_id", [courseid |-> courseid],
                     Returns(init_courses_output))

call_get_courses_by_instructor ==
    /\ pc = "idle"
    /\ \E fuzzy \in BOOLEAN, index \in IndexesTried :
           LET name == Chars("kosbie")
           IN  CourseCall("get_courses_by_instructor",
                          [name |-> name, fuzzy |-> fuzzy, index |-> index],
                          IF fuzzy
                          THEN [instructor |-> <<name>>, instructor_fuzzy |-> <<name>>]
                          ELSE [instructor |-> <<name>>],
                          index, 100)

call_get_courses_by_building_room ==
    /\ pc = "idle"
    /\ \E building \in {None, Str(Chars("dh"))}, room \in {None, Str(Chars("a51"))},
          index \in {None, Str(Chars("f17"))} :
           LET a == [building |-> building, room |-> room, index |-> index]
               keys == (IF building # None THEN {"building"} ELSE {})
                       \cup (IF room # None THEN {"room"} ELSE {})
           IN  IF building = None /\ room = None
               THEN Pure("get_courses_by_building_room", a, Raises("AssertionError"))
               ELSE CourseCall("get_courses_by_building_room", a,
                               [k \in keys |-> IF k = "building" THEN <<building.s>>
                                               ELSE <<room.s>>],
                               index, 100)

call_get_courses_by_datetime ==
    /\ pc = "idle"
    /\ \E datetime_str \in DateTimeStrsTried, span_str \in SpanStrsTried, n \in NowTried :
           LET a == [datetime_str |-> datetime_str, span_str |-> span_str]
               span_minutes == SpanMinutes(span_str)
               isNow == datetime_str.s = Chars_now
               date_time == IF isNow THEN Returns(n) ELSE arrow_get(datetime_str)
           IN  IF span_minutes.exc # "none"
                   THEN Pure("get_courses_by_datetime", a, Returns(ErrorOutput(SPAN_PARSE_FAIL)))
               ELSE IF date_time.exc # "none"
                   THEN Pure("get_courses_by_datetime", a,
                             Returns(ErrorOutput(DATETIME_PARSE_FAIL)))
               ELSE /\ pc' = "searching" /\ op' = "get_courses_by_datetime" /\ arg' = a
                    /\ now' = IF isNow THEN n ELSE now
                    /\ searches' =
                           <<CourseSearch([datetime |-> <<date_time.val>>,
                                           timespan |-> <<span_minutes.val>>],
                                          Str(get_course_index_from_date(date_time.val.date)),
                                          200)>>
                    /\ UNCHANGED <<today, backend, response, result>>

call_get_courses_by_searching ==
    /\ pc = "idle"
    /\ \E args \in ArgsTried :
           IF DOMAIN args = {}
           THEN Pure("get_courses_by_searching", [args |-> args],
                     Returns(ErrorOutput(EMPTY_SEARCH)))
           ELSE CourseCall("get_courses_by_searching", [args |-> args],
                           SearchingRawQuery(args), SearchingIndex(args), 100)

call_get_fce_by_id ==
    /\ pc = "idle"
    /\ \E courseid \in {Chars("15-112"), Chars("x")} :
           FCECall("get_fce_by_id", [courseid |-> courseid], [courseid |-> <<courseid>>])

call_get_fce_by_instructor ==
    /\ pc = "idle"
    /\ \E instructor \in {Chars("kosbie")} :
           FCECall("get_fce_by_instructor", [instructor |-> instructor],
                   [instructor |-> <<instructor>>])

\* a CourseSearcher built and executed by the caller itself
call_CourseSearcher_execute ==
    /\ pc = "idle"
    /\ \E raw_query \in RawQueriesTried :
           CourseCall("CourseSearcher.execute", [raw_query |-> raw_query, index |-> None],
                      raw_query, None, 5)

\* the backend answers the search, Searcher.fetch hands the answer back and
\* the function that called it builds its output
Respond ==
    /\ pc = "searching"
    /\ \E outcome \in BackendOutcomes :
        LET fetched == fetch(outcome)
        IN  /\ backend' = outcome
            /\ response' = (IF fetched.exc = "none" THEN fetched.val ELSE None)
            /\ result' = (IF fetched.exc = "none" THEN Output(op, fetched.val)
                          ELSE fetched)
    /\ pc' = "done"
    /\ UNCHANGED <<op, arg, today, now, searches>>

\* the caller takes the result; the next call starts from scratch
Return ==
    /\ pc = "done"
    /\ pc' = "idle" /\ op' = "none" /\ arg' = NoArg
    /\ searches' = <<>> /\ backend' = NoBackend
    /\ response' = None /\ result' = NoResult
    /\ today' = Today0 /\ now' = Now0

Next ==
    \/ call_parse_time
    \/ call_get_semester_from_date
    \/ call_get_courses_by_id
    \/ call_get_courses_by_instructor
    \/ call_get_courses_by_building_room
    \/ call_get_courses_by_datetime
    \/ call_get_courses_by_searching
    \/ call_get_fce_by_id
    \/ call_get_fce_by_instructor
    \/ call_CourseSearcher_execute
    \/ Respond
    \/ Return

Spec == Init /\ [][Next]_vars

\* the searcher used on its own
NextSearcher ==
    \/ call_CourseSearcher_execute
    \/ Respond
    \/ Return

SpecSearcher == Init /\ [][NextSearcher]_vars

---------------------------------------------------------------------------
(* Properties                                                              *)

\* the search in flight, or the one the call made
TheSearch == searches[1]

Called(name) == pc \in {"searching", "done"} /\ op = name

\* the result list of an output, whichever of the two it has
ResultList(output) == IF Has(output, "courses") THEN output.courses ELSE output.fces

LookupFunctions ==
    {"get_courses_by_instructor", "get_courses_by_building_room",
     "get_courses_by_datetime", "get_courses_by_searching",
     "get_fce_by_id", "get_fce_by_instructor"}

\* C1: when the backend search raises NotFoundError, RequestError or
\* TransportError, a lookup function returns: its output's 'response' is the
\* error info of the exception and its result list is empty.
C1_BackendErrorsPassThrough ==
    (/\ pc = "done" /\ op \in LookupFunctions
     /\ backend.kind = "raise" /\ IsTransportError(backend.exc))
    => /\ result.exc = "none"
       /\ result.val.response = backend.info
       /\ ResultList(result.val) = <<>>

\* the dictionaries of a response's hits, in the backend's order
HitDicts(r) == [i \in 1..Len(r.hits) |-> Dict(r.hits[i].source)]

FormatsWell(r, output, key) ==
    /\ output.exc = "none"
    /\ DOMAIN output.val = {"response", key}
    /\ backend.kind = "ok" =>
          /\ output.val[key] = HitDicts(r)
          /\ output.val.response = Response_to_dict(r)
    /\ backend.kind = "raise" => output.val[key] = <<>>

\* C2: for whatever Searcher.fetch hands back, a response or an error info,
\* format_courses_output and format_fces_output return a dictionary of exactly
\* two keys, 'response' and the result list; for a response the list holds one
\* entry per hit in the backend's order and 'response' is the response as a
\* dictionary; for an error the list is empty.
C2_OutputShape ==
    (pc = "done" /\ backend.kind # "none" /\ fetch(backend).exc = "none")
    => /\ FormatsWell(response, format_courses_output(response), "courses")
       /\ FormatsWell(response, format_fces_output(response), "fces")

\* two digits, a hyphen, three digits
WellFormedCourseId(s) ==
    /\ Len(s) = 6
    /\ s[3] = "-"
    /\ \A i \in {1, 2, 4, 5, 6} : s[i] \in Digits

\* C3: get_courses_by_id with a well-formed course id sets the status 404 only
\* when the search succeeded without hits, and passes the status of a failed
\* search through unchanged; with any other course id it issues no search and
\* returns {'response': {}, 'courses': []}.
C3_StatusOfCoursesById ==
    (pc = "done" /\ op = "get_courses_by_id")
    => IF WellFormedCourseId(arg.courseid)
       THEN /\ (backend.kind = "raise" /\ IsTransportError(backend.exc)
                /\ has_error(backend.info))
               => /\ result.exc = "none"
                  /\ result.val.response.d["status"] = backend.info.d["status"]
            /\ (backend.kind = "ok" /\ result.exc = "none")
               => (Has(result.val.response.d, "status")
                      <=> Len(backend.response.hits) = 0)
       ELSE /\ searches = <<>>
            /\ result = Returns([response |-> Dict(<<>>), courses |-> <<>>])

\* what C4 asks of the two arguments
SpanIsValid(span_str) ==
    \/ span_str = None
    \/ /\ int(span_str.s).exc = "none"
       /\ SPAN_LOWER_LIMIT <= int(span_str.s).val
       /\ int(span_str.s).val <= SPAN_UPPER_LIMIT
DatetimeIsValid(datetime_str) ==
    datetime_str.s = Chars_now \/ arrow_get(datetime_str).exc = "none"

BadRequest(output, message) ==
    /\ output.exc = "none"
    /\ output.val.response.d["status"] = 400
    /\ output.val.response.d["error"]["message"] = message
    /\ output.val.courses = <<>>

\* C4: get_courses_by_datetime issues a search, and then exactly one, only if
\* the span is absent or an integer within the limits and the datetime is
\* 'now' or parses; otherwise it issues none and returns status 400 with no
\* courses, reporting a bad span in preference to a bad datetime.
C4_DatetimeArguments ==
    Called("get_courses_by_datetime") =>
        /\ Len(searches) <= 1
        /\ Len(searches) = 1 =>
              SpanIsValid(arg.span_str) /\ DatetimeIsValid(arg.datetime_str)
        /\ ~(SpanIsValid(arg.span_str) /\ DatetimeIsValid(arg.datetime_str)) =>
              /\ searches = <<>>
              /\ pc = "done"
              /\ BadRequest(result, IF ~SpanIsValid(arg.span_str)
                                    THEN SPAN_PARSE_FAIL ELSE DATETIME_PARSE_FAIL)

\* C4's cases: a search went out for a datetime with a span, and was answered
C4_Witness ==
    /\ pc = "done" /\ op = "get_courses_by_datetime"
    /\ arg.span_str # None
    /\ Len(searches) = 1
    /\ TheSearch.raw_query["timespan"] = <<SPAN_UPPER_LIMIT>>

MeetingsTried ==
    {[path |-> "lectures.times", days |-> ds, begin |-> {be[1]}, end |-> {be[2]}] :
        ds \in {{0}, {1}, {6}, {1, 3}},
        be \in {<<0, 50>>, <<9 * 60, 10 * 60 + 20>>, <<11 * 60 + 30, 12 * 60 + 50>>,
                <<23 * 60, 23 * 60 + 55>>}}

\* Sunday = 0 ... Saturday = 6, from the ISO day of the week
DayOfWeek(isoweekday) == IF isoweekday = 7 THEN 0 ELSE isoweekday

\* the meeting is on the day of t and overlaps the window from t to t + s
Overlaps(meeting, t, s) ==
    /\ DayOfWeek(t.isoweekday) \in meeting.days
    /\ \E b \in meeting.begin : b <= t.minute + s
    /\ \E e \in meeting.end : e > t.minute

\* C5: for every instant t and span s, the time clause selects a meeting time
\* exactly when the meeting is on the day of the week of t and its interval
\* overlaps the window from t to t + s.
C5_TimeClauseIsOverlap ==
    (pc = "searching" /\ Has(TheSearch.raw_query, "datetime")) =>
        LET raw_query == TheSearch.raw_query
        IN  \A meeting \in MeetingsTried :
                Eval(TimeQuery(raw_query, "lectures.times"), meeting)
                    <=> Overlaps(meeting, raw_query["datetime"][1],
                                 raw_query["timespan"][1])

\* the same for the windows that end on the day they begin
C5_WithinTheDay ==
    (/\ pc = "searching" /\ Has(TheSearch.raw_query, "datetime")
     /\ TheSearch.raw_query["datetime"][1].minute + TheSearch.raw_query["timespan"][1]
            < MinutesPerDay)
    => LET raw_query == TheSearch.raw_query
       IN  \A meeting \in MeetingsTried :
               Eval(TimeQuery(raw_query, "lectures.times"), meeting)
                   <=> Overlaps(meeting, raw_query["datetime"][1],
                                raw_query["timespan"][1])

\* the semester of a date by the calendar: its short letter and its name
SemesterOf(date) ==
    IF NotAfter(date, 5, 15)
        THEN [short |-> <<"s">>, long |-> <<"S", "p", "r", "i", "n", "g">>]
    ELSE IF NotAfter(date, 7, 1)
        THEN [short |-> <<"m", "1">>,
              long |-> <<"S", "u", "m", "m", "e", "r", " ", "O", "n", "e">>]
    ELSE IF NotAfter(date, 8, 20)
        THEN [short |-> <<"m", "2">>,
              long |-> <<"S", "u", "m", "m", "e", "r", " ", "T", "w", "o">>]
    ELSE [short |-> <<"f">>, long |-> <<"F", "a", "l", "l">>]

\* C6: every date has one semester; the short form is its letter and the last
\* two digits of the year, the long form its name and the year, and the course
\* index is the prefix and the short form.
C6_SemesterOfDate ==
    (pc = "done" /\ op = "get_semester_from_date") =>
        LET date == arg.date
            short == SemesterOf(date).short \o TwoDigits(date.year % 100)
        IN  /\ result.val.short = short
            /\ result.val.long = SemesterOf(date).long \o <<" ">> \o IntToStr(date.year)
            /\ result.val.index = ES_COURSE_INDEX_PREFIX \o short

\* the same for the years of four digits
C6_FourDigitYears ==
    (pc = "done" /\ op = "get_semester_from_date" /\ arg.date.year >= 1000) =>
        LET date == arg.date
            short == SemesterOf(date).short \o TwoDigits(date.year % 100)
        IN  /\ result.val.short = short
            /\ result.val.long = SemesterOf(date).long \o <<" ">> \o IntToStr(date.year)
            /\ result.val.index = ES_COURSE_INDEX_PREFIX \o short

\* C7: get_courses_by_searching without arguments issues no search and returns
\* status 400 with EMPTY_SEARCH and no courses; with arguments it issues exactly
\* one search, of every course index when there is no 'term' and of the current
\* semester's index when there is one, whatever its value.
C7_SearchingIndex ==
    Called("get_courses_by_searching") =>
        IF DOMAIN arg.args = {}
        THEN searches = <<>> /\ pc = "done" /\ BadRequest(result, EMPTY_SEARCH)
        ELSE /\ Len(searches) = 1
             /\ TheSearch.index =
                    Str(ES_COURSE_INDEX_PREFIX \o
                        (IF Has(arg.args, "term")
                         THEN get_semester_short_from_date(today) ELSE <<"*">>))

\* C7's case: a search with a 'term' that names another semester than today's
C7_Witness ==
    /\ pc = "done" /\ op = "get_courses_by_searching"
    /\ Has(arg.args, "term") /\ arg.args["term"] = Chars("f17")
    /\ Len(searches) = 1
    /\ TheSearch.index # Str(Chars("c-f17"))

AmPmSpellings == {<<x, y>> : x \in {"a", "A", "p", "P"}, y \in {"m", "M"}}

\* the time a string spells: an hour of one or two digits, a colon, a minute
\* of nm digits for some nm in minuteLens and, in the 12-hour form, am or pm in
\* either case; None for every other string
SpelledTime(s, minuteLens) ==
    LET splits == {<<nh, nm>> \in {1, 2} \X minuteLens :
                      /\ Len(s) >= nh + 1 + nm
                      /\ AllDigits(SubSeq(s, 1, nh))
                      /\ s[nh + 1] = ":"
                      /\ AllDigits(SubSeq(s, nh + 2, nh + 1 + nm))
                      /\ DigitsToInt(SubSeq(s, nh + 2, nh + 1 + nm)) <= 59}
        hourOf(sp) == DigitsToInt(SubSeq(s, 1, sp[1]))
        minuteOf(sp) == DigitsToInt(SubSeq(s, sp[1] + 2, sp[1] + 1 + sp[2]))
        rest(sp) == SubSeq(s, sp[1] + sp[2] + 2, Len(s))
        form12 == {sp \in splits : rest(sp) \in AmPmSpellings /\ hourOf(sp) \in 1..12}
        form24 == {sp \in splits : rest(sp) = <<>> /\ hourOf(sp) <= 23}
    IN  IF form12 # {}
            THEN LET sp == CHOOSE x \in form12 : TRUE
                 IN  Time((hourOf(sp) % 12)
                              + (IF rest(sp)[1] \in {"p", "P"} THEN 12 ELSE 0),
                          minuteOf(sp))
        ELSE IF form24 # {}
            THEN LET sp == CHOOSE x \in form24 : TRUE
                 IN  Time(hourOf(sp), minuteOf(sp))
        ELSE None

ParsesAs(minuteLens) ==
    (pc = "done" /\ op = "parse_time") =>
        result = Returns(IF arg.time_string.t = "str"
                         THEN SpelledTime(arg.time_string.s, minuteLens)
                         ELSE None)

\* C8 as stated: parse_time returns the time of day of every string 'h:mm'
\* followed by am or pm in either case and of every string 'H:MM', and None,
\* without raising, for every other string.
C8_TwoDigitMinutes == ParsesAs({2})

\* C8 as amended: the minute may also be a single digit ('8:5am' is 08:05,
\* '8:5' is 08:05).
C8_OneOrTwoDigitMinutes == ParsesAs({1, 2})

\* C8's case: a 12-hour string with a one-digit minute, in the afternoon
C8_Witness ==
    /\ pc = "done" /\ op = "parse_time"
    /\ arg.time_string = Str(<<"8", ":", "5", "P", "m">>)
    /\ result = Returns(Time(20, 5))

\* f, s, m1 or m2 and two digits, and nothing else
IsTermName(s) ==
    \/ Len(s) = 3 /\ s[1] \in {"f", "s"} /\ s[2] \in Digits /\ s[3] \in Digits
    \/ Len(s) = 4 /\ s[1] = "m" /\ s[2] \in {"1", "2"}
       /\ s[3] \in Digits /\ s[4] \in Digits

\* C10: CourseSearcher takes None for the index of every semester, 'current'
\* for the index of today's semester, a term name for the prefix followed by
\* that name, and any other value unchanged; the index get_courses_by_datetime
\* passes, which has the prefix already, is not prefixed again.
C10_IndexResolution ==
    /\ Called("get_courses_by_instructor") =>
          TheSearch.index =
              IF arg.index = None THEN Str(ES_COURSE_INDEX_PREFIX \o <<"*">>)
              ELSE IF arg.index.s = Chars_current
                  THEN Str(ES_COURSE_INDEX_PREFIX \o get_semester_short_from_date(today))
              ELSE IF IsTermName(arg.index.s)
                  THEN Str(ES_COURSE_INDEX_PREFIX \o arg.index.s)
              ELSE arg.index
    /\ (Called("get_courses_by_datetime") /\ searches # <<>>) =>
          TheSearch.index =
              Str(get_course_index_from_date(TheSearch.raw_query["datetime"][1].date))

\* the same for the values that do not end in a newline
C10_NoTrailingNewline ==
    (/\ Called("get_courses_by_instructor") /\ arg.index # None
     /\ Len(arg.index.s) > 0 /\ arg.index.s[Len(arg.index.s)] # "\n")
    => TheSearch.index =
           IF arg.index.s = Chars_current
               THEN Str(ES_COURSE_INDEX_PREFIX \o get_semester_short_from_date(today))
           ELSE IF IsTermName(arg.index.s)
               THEN Str(ES_COURSE_INDEX_PREFIX \o arg.index.s)
           ELSE arg.index

\* C9's reading of a match: one lecture, or one section, whose instructor
\* matches and one meeting time of which meets every constraint present
MeetsConstraints(raw_query, owner) ==
    /\ Has(raw_query, "instructor")
           => Join(raw_query["instructor"]) \in owner.instructors
    /\ \E tm \in owner.times :
          /\ Has(raw_query, "building") => Upper(raw_query["building"][1]) \in tm.building
          /\ Has(raw_query, "room") => Upper(raw_query["room"][1]) \in tm.room
          /\ Has(raw_query, "datetime") => Eval(TimeQuery(raw_query, tm.path), tm)

CourseMatches(raw_query, doc) ==
    \/ \E l \in doc.lectures : MeetsConstraints(raw_query, l)
    \/ \E x \in doc.sections : MeetsConstraints(raw_query, x)

===========================================================================
